---------------------------- MODULE Spec2Model ----------------------------
(***************************************************************************)
(* K-means clustering of 2D integer points (02-kmeans).                    *)
(*                                                                         *)
(* Two engines implement IKMeans::init / IKMeans::compute:                 *)
(*   serial/implementation.hpp     - the sequential engine                 *)
(*   framework/implementation.hpp  - the concurrent (TBB) engine           *)
(* and framework/k-means.cpp is the harness (main, runKmeans).             *)
(*                                                                         *)
(* Vectors are TLA+ sequences; the code's 0-based index i is position      *)
(* i + 1 of the sequence.  Cluster indices and assignment values keep the  *)
(* code's 0-based values.                                                  *)
(***************************************************************************)
EXTENDS Integers, Sequences, FiniteSets, TLC

(***************************************************************************)
(* Bounds of the model.                                                    *)
(***************************************************************************)
\* Largest number of points of an enumerated request.
MaxPoints == 3
\* Largest iteration count of an enumerated request.
MaxIters == 2
\* Largest number of chunks one parallel_for is split into.
MaxWorkers == 2
\* Largest number of init calls on one engine (SpecReinit).
MaxInits == 3
\* Side of the grid the points of the wide request lie on (SpecWide).
GridSide == 17
\* Largest number of compute calls made on one engine (SpecRetry).
MaxCalls == 2
\* Largest number of points of a request whose run is followed to its end under
\* fairness (SpecFair).
MaxPointsLong == 2

(***************************************************************************)
(* Program constants.                                                      *)
(***************************************************************************)
\* coord_t is std::int64_t.  TLC's integers have 32 bits, so the model
\* keeps the two's-complement arithmetic of coord_t at CoordBits bits.
CoordBits == 12
\* ASGN is std::uint8_t: the number of values of the assignment type.
AsgnRange == 256
\* main accepts 1 <= k <= 256 and 1 <= iters <= 1000.
MaxClusters == 256
MaxIterations == 1000

VARIABLES
    engine,            \* "serial" or "concurrent": which implementation.hpp is built
    workers,           \* size of the worker pool: most chunks a parallel_for runs
    points,            \* the request: the input points,
    k,                 \*   the number of clusters,
    iterations,        \*   the number of iterations
    pc,                \* where the caller / compute is
    initCalls,         \* number of init calls made on the engine
    POINTS_SIZE,       \* concurrent engine: field POINTS_SIZE
    temp_assignments,  \* concurrent engine: field temp_assignments
    sums,              \* serial engine: field sums
    counts,            \* serial engine: field counts
    iters,             \* compute: its by-value parameter iters, counted down
    centroids,         \* compute: output parameter centroids
    assignments,       \* compute: output parameter assignments
    tasks,             \* the chunks of the running parallel_for, each with its cursor
    previous,          \* the caller's copies of the results of its earlier compute calls
    measured           \* the caller's copy of the value distance returned to it

vars == <<engine, workers, points, k, iterations, pc, initCalls, POINTS_SIZE,
          temp_assignments, sums, counts, iters, centroids, assignments, tasks,
          previous, measured>>

(***************************************************************************)
(* Point model (interface.hpp, point_t) and coord_t arithmetic.            *)
(***************************************************************************)
Point(px, py) == [x |-> px, y |-> py]

Origin == Point(0, 0)

RECURSIVE Pow2(_)
Pow2(n) == IF n = 0 THEN 1 ELSE 2 * Pow2(n - 1)

CoordModulus == Pow2(CoordBits)

\* The value a coord_t holds after an arithmetic result n: two's complement.
Wrap(n) == ((n + CoordModulus \div 2) % CoordModulus) - CoordModulus \div 2

\* C++ integer division of a by a positive b: the quotient truncated toward zero.
TruncDiv(a, b) == IF a >= 0 THEN a \div b ELSE -((-a) \div b)

\* The cast (ASGN)n to std::uint8_t.
AsgnCast(n) == n % AsgnRange

distance(point, centroid) ==
    LET dx == Wrap(point.x - centroid.x)
        dy == Wrap(point.y - centroid.y)
    IN  Wrap(Wrap(dx * dx) + Wrap(dy * dy))

\* NearestStep with the index recorded after the increment.
NearestStepOffByOne(point, cs, i, st) ==
    LET dist == distance(point, cs[i + 1])
    IN  IF dist < st.minDist THEN [minDist |-> dist, nearest |-> i + 1] ELSE st

\* NearestStep with "<=" for "<": among equidistant centroids the last one wins.
NearestStepLastWins(point, cs, i, st) ==
    LET dist == distance(point, cs[i + 1])
    IN  IF dist <= st.minDist THEN [minDist |-> dist, nearest |-> i] ELSE st

\* The step of getNearestCluster's loop for index i, on st = [minDist, nearest].
NearestStep(point, cs, i, st) ==
    LET dist == distance(point, cs[i + 1])
    IN  IF dist < st.minDist THEN [minDist |-> dist, nearest |-> i] ELSE st

\* The loop of getNearestCluster for i = lo, ..., hi - 1, in this order.  (The
\* range is halved, and the first half evaluated before the second starts, only
\* to keep TLC's evaluation shallow: `nearest` is never negative.)
RECURSIVE NearestLoop(_, _, _, _, _)
NearestLoop(point, cs, lo, hi, st) ==
    IF lo >= hi THEN st
    ELSE IF hi = lo + 1 THEN NearestStep(point, cs, lo, st)
    ELSE LET mid == (lo + hi) \div 2
             left == NearestLoop(point, cs, lo, mid, st)
         IN  IF left.nearest >= 0 THEN NearestLoop(point, cs, mid, hi, left) ELSE left

\* getNearestCluster on a non-empty centroid vector.
getNearestCluster(point, cs) ==
    NearestLoop(point, cs, 1, Len(cs),
                [minDist |-> distance(point, cs[1]), nearest |-> 0]).nearest

(***************************************************************************)
(* Vector helpers.                                                         *)
(***************************************************************************)
\* reserve(n) for resize(n): the length of the vector does not change.
ResizeReserve(s, n, zero) == s

\* std::vector::resize(n): keeps the first n elements, appends value-initialized ones.
Resize(s, n, zero) == [i \in 1..n |-> IF i <= Len(s) THEN s[i] ELSE zero]

\* A parallel_for whose tasks all run over the whole range [lo, n).
ChunksOverlapping(lo, n, m) ==
    IF lo >= n THEN {<<>>}
    ELSE {[t \in 1..j |-> [next |-> lo, end |-> n]] : j \in 1..m}

\* The contiguous chunks a parallel_for over [lo, n) runs as tasks: at most m of them.
RECURSIVE Chunks(_, _, _)
Chunks(lo, n, m) ==
    IF lo >= n THEN {<<>>}
    ELSE IF m = 0 THEN {}
    ELSE UNION {{<<[next |-> lo, end |-> hi]>> \o rest : rest \in Chunks(hi, n, m - 1)}
                : hi \in (lo + 1)..n}

\* A parallel_for that returns as soon as one of its tasks has finished.
SomeFinished == tasks = <<>> \/ \E t \in 1..Len(tasks) : tasks[t].next = tasks[t].end

AllFinished == \A t \in 1..Len(tasks) : tasks[t].next = tasks[t].end

(***************************************************************************)
(* The requests.                                                           *)
(***************************************************************************)
\* The points of the enumerated requests: both signs on both axes, and pairs
\* of points equidistant from a third.
PointSet == {Point(-1, 0), Point(0, 0), Point(1, -1), Point(0, 1)}

RECURSIVE PointSeqs(_)
PointSeqs(n) ==
    IF n = 0 THEN {<<>>}
    ELSE {Append(s, p) : s \in PointSeqs(n - 1), p \in PointSet}

ScenarioPoints == <<Point(0, 0), Point(10, 0), Point(0, 10), Point(10, 10)>>

Inputs == UNION {PointSeqs(n) : n \in 0..MaxPoints} \cup {ScenarioPoints}

Engines == {"serial", "concurrent"}

(***************************************************************************)
(* Initial state: a freshly constructed engine and a request.              *)
(***************************************************************************)
Fresh ==
    /\ pc = "start"
    /\ initCalls = 0
    /\ POINTS_SIZE = 0
    /\ temp_assignments = <<>>
    /\ sums = <<>>
    /\ counts = <<>>
    /\ iters = 0
    /\ centroids = <<>>
    /\ assignments = <<>>
    /\ tasks = <<>>
    /\ previous = <<>>
    /\ measured = 0

Init ==
    /\ engine \in Engines
    /\ workers = MaxWorkers
    /\ points \in Inputs
    /\ k \in 0..MaxPoints
    /\ iterations \in 0..MaxIters
    /\ Fresh

(***************************************************************************)
(* The harness: main's argument check and runKmeans.                       *)
(***************************************************************************)
\* main: the check of k and iters.
MainValidate ==
    /\ pc = "start"
    /\ pc' = IF k = 0 \/ iterations = 0 \/ k > MaxClusters \/ iterations > MaxIterations
             THEN "usage" ELSE "run"
    /\ UNCHANGED <<previous, measured>>
    /\ UNCHANGED <<engine, workers, points, k, iterations, initCalls, POINTS_SIZE,
                   temp_assignments, sums, counts, iters, centroids, assignments, tasks>>

\* A caller that hands its request to runKmeans without main's check.
DirectCall ==
    /\ pc = "start"
    /\ pc' = "run"
    /\ UNCHANGED <<previous, measured>>
    /\ UNCHANGED <<engine, workers, points, k, iterations, initCalls, POINTS_SIZE,
                   temp_assignments, sums, counts, iters, centroids, assignments, tasks>>

\* KMeans::init(n, kk, it): what it does to the engine's fields.
InitFields(n, kk, it) ==
    IF engine = "concurrent"
    THEN /\ POINTS_SIZE' = n
         /\ temp_assignments' = temp_assignments \o [i \in 1..kk |-> <<>>]
         /\ UNCHANGED <<sums, counts>>
    ELSE /\ sums' = Resize(sums, kk, Origin)
         /\ counts' = Resize(counts, kk, 0)
         /\ UNCHANGED <<POINTS_SIZE, temp_assignments>>

\* runKmeans: kMeans.init(points.size(), k, iters).
RunInit ==
    /\ pc = "run"
    /\ InitFields(Len(points), k, iterations)
    /\ initCalls' = initCalls + 1
    /\ pc' = "inited"
    /\ UNCHANGED <<previous, measured>>
    /\ UNCHANGED <<engine, workers, points, k, iterations, iters, centroids,
                   assignments, tasks>>

(***************************************************************************)
(* compute: preparation for the first iteration (the same text in both     *)
(* engines).                                                               *)
(***************************************************************************)
\* What "centroids[i] = points[i]" for i < n leaves in centroids: past the end
\* of points the read is out of bounds and yields an arbitrary point.
SeedCentroids(pts, n) ==
    IF n <= Len(pts) THEN {SubSeq(pts, 1, n)}
    ELSE {pts \o garbage : garbage \in PointSeqs(n - Len(pts))}

\* ComputeStart that seeds the centroids only when the caller's vector does not
\* already hold k of them.
ComputeStartKeepsCentroids ==
    /\ pc = "inited"
    /\ pc' = "loop"
    /\ iters' = iterations
    /\ centroids' \in IF Len(centroids) = k THEN {centroids} ELSE SeedCentroids(points, k)
    /\ assignments' = Resize(assignments, Len(points), 0)
    /\ UNCHANGED <<engine, workers, points, k, iterations, initCalls, POINTS_SIZE,
                   temp_assignments, sums, counts, tasks, previous, measured>>

\* compute up to the iteration loop.  runKmeans hands it empty output vectors.
ComputeStart ==
    /\ pc = "inited"
    /\ \E crash \in IF k > Len(points) THEN BOOLEAN ELSE {FALSE} :
         IF crash
         THEN /\ pc' = "crashed"
              /\ UNCHANGED <<iters, centroids, assignments>>
         ELSE /\ pc' = "loop"
              /\ iters' = iterations
              /\ centroids' \in SeedCentroids(points, k)
              /\ assignments' = Resize(assignments, Len(points), 0)
    /\ UNCHANGED <<previous, measured>>
    /\ UNCHANGED <<engine, workers, points, k, iterations, initCalls, POINTS_SIZE,
                   temp_assignments, sums, counts, tasks>>

\* Return that does not wait for iters to reach 0: compute may stop early.
ReturnEarly ==
    /\ pc = "loop"
    /\ pc' = "done"
    /\ UNCHANGED <<engine, workers, points, k, iterations, initCalls, POINTS_SIZE,
                   temp_assignments, sums, counts, iters, centroids, assignments,
                   tasks, previous, measured>>

\* compute: the loop condition fails and compute returns.
Return ==
    /\ pc = "loop"
    /\ iters = 0
    /\ pc' = "done"
    /\ UNCHANGED <<previous, measured>>
    /\ UNCHANGED <<engine, workers, points, k, iterations, initCalls, POINTS_SIZE,
                   temp_assignments, sums, counts, iters, centroids, assignments, tasks>>

\* runKmeans after compute: the two size checks, each of which throws.
RunCheck ==
    /\ pc = "done"
    /\ pc' = IF Len(centroids) # k \/ Len(assignments) # Len(points)
             THEN "failed" ELSE "returned"
    /\ UNCHANGED <<previous, measured>>
    /\ UNCHANGED <<engine, workers, points, k, iterations, initCalls, POINTS_SIZE,
                   temp_assignments, sums, counts, iters, centroids, assignments, tasks>>

(***************************************************************************)
(* The concurrent engine's iteration.                                      *)
(***************************************************************************)
\* One iteration starts: --iters, the accumulators are cleared, and the first
\* parallel_for splits [0, POINTS_SIZE) into tasks.
BeginIteration ==
    /\ pc = "loop"
    /\ engine = "concurrent"
    /\ iters > 0
    /\ \E crash \in IF k > Len(temp_assignments) THEN BOOLEAN ELSE {FALSE} :
         IF crash
         THEN /\ pc' = "crashed"
              /\ UNCHANGED <<iters, temp_assignments, tasks>>
         ELSE /\ pc' = "phaseA"
              /\ iters' = iters - 1
              /\ temp_assignments' = [c \in 1..Len(temp_assignments) |->
                                        IF c <= k THEN <<>> ELSE temp_assignments[c]]
              /\ tasks' \in Chunks(0, POINTS_SIZE, workers)
    /\ UNCHANGED <<previous, measured>>
    /\ UNCHANGED <<engine, workers, points, k, iterations, initCalls, POINTS_SIZE,
                   sums, counts, centroids, assignments>>

\* The accumulator a point with nearest centroid `nearest` is appended to.
AccumulatorOf(nearest) == AsgnCast(nearest)

\* The condition "iters == 0" was taken on the first iteration, not the last.
FirstIteration == iters + 1 = iterations

\* Line 97: iters has been counted down to 0, this is the last iteration.
LastIteration == iters = 0

\* Phase A, one point of task t: lines 96-100.  A read past the end of points
\* yields an arbitrary point, a read of centroids[0] of an empty vector an
\* arbitrary distance (nearest stays 0), a write past the end of a vector is
\* lost; any of them may instead end the process.
PhaseAStep(t) ==
    /\ pc = "phaseA"
    /\ tasks[t].next < tasks[t].end
    /\ LET i == tasks[t].next
       IN  \E p \in IF i < Len(points) THEN {points[i + 1]} ELSE PointSet :
             LET nearest == IF centroids = <<>> THEN 0
                            ELSE getNearestCluster(p, centroids)
                 slot == AccumulatorOf(nearest)
                 undefined == \/ i >= Len(points)
                              \/ centroids = <<>>
                              \/ slot >= Len(temp_assignments)
             IN  \E crash \in IF undefined THEN BOOLEAN ELSE {FALSE} :
                   IF crash
                   THEN /\ pc' = "crashed"
                        /\ UNCHANGED <<assignments, temp_assignments, tasks>>
                   ELSE /\ pc' = pc
                        /\ assignments' =
                             IF LastIteration /\ i < Len(assignments)
                             THEN [assignments EXCEPT ![i + 1] = AsgnCast(nearest)]
                             ELSE assignments
                        /\ temp_assignments' =
                             IF slot < Len(temp_assignments)
                             THEN [temp_assignments EXCEPT ![slot + 1] = Append(@, p)]
                             ELSE temp_assignments
                        /\ tasks' = [tasks EXCEPT ![t].next = i + 1]
    /\ UNCHANGED <<previous, measured>>
    /\ UNCHANGED <<engine, workers, points, k, iterations, initCalls, POINTS_SIZE,
                   sums, counts, iters, centroids>>

\* The first parallel_for returns once all its tasks have finished; the second
\* one splits [0, k) into tasks.
PhaseAJoin ==
    /\ pc = "phaseA"
    /\ AllFinished
    /\ pc' = "phaseB"
    /\ tasks' \in Chunks(0, k, workers)
    /\ UNCHANGED <<previous, measured>>
    /\ UNCHANGED <<engine, workers, points, k, iterations, initCalls, POINTS_SIZE,
                   temp_assignments, sums, counts, iters, centroids, assignments>>

\* The combiner of the parallel_reduce.
Join(f, s) == Point(Wrap(f.x + s.x), Wrap(f.y + s.y))

\* The body of the parallel_reduce on members lo+1..hi, started from p.
RECURSIVE ReduceBody(_, _, _, _)
ReduceBody(members, lo, hi, p) ==
    IF lo >= hi THEN p
    ELSE ReduceBody(members, lo + 1, hi, Join(p, members[lo + 1]))

\* Every value the parallel_reduce over [lo, hi) can return when started from p:
\* the range is run by one body call, or split anywhere, the right part either
\* continuing from the left part's value or starting from the identity and joined.
RECURSIVE ReduceResults(_, _, _, _)
ReduceResults(members, lo, hi, p) ==
    {ReduceBody(members, lo, hi, p)} \cup
    UNION {UNION {ReduceResults(members, mid, hi, l) \cup
                  {Join(l, r) : r \in ReduceResults(members, mid, hi, Origin)}
                  : l \in ReduceResults(members, lo, mid, p)}
           : mid \in (lo + 1)..(hi - 1)}

\* Mean with the number of points as the divisor.
MeanOverAllPoints(sum, size) ==
    Point(TruncDiv(sum.x, Len(points)), TruncDiv(sum.y, Len(points)))

\* The new centroid of a cluster from the sum and the number of its members.
Mean(sum, size) == Point(TruncDiv(sum.x, size), TruncDiv(sum.y, size))

\* UpdatedCentroid without the "continue" of an empty cluster: its centroid is
\* written from the zero sum.
UpdatedCentroidReset(old, members) ==
    LET cluster_size == Len(members)
    IN  IF cluster_size = 0 THEN {Origin}
        ELSE {Mean(result, cluster_size) :
                result \in ReduceResults(members, 0, cluster_size, Origin)}

\* Lines 108-128: the values centroids[i] can hold after the update of a cluster
\* whose centroid is `old` and whose accumulator holds `members`.
UpdatedCentroid(old, members) ==
    LET cluster_size == Len(members)
    IN  IF cluster_size = 0 THEN {old}
        ELSE {Mean(result, cluster_size) :
                result \in ReduceResults(members, 0, cluster_size, Origin)}

\* Phase B, one cluster of task t.  The range is [0, k) and centroids has k
\* elements; an accumulator past the end of temp_assignments has an arbitrary
\* size and content (the centroid is kept or gets an arbitrary value), or the
\* read ends the process.
PhaseBStep(t) ==
    /\ pc = "phaseB"
    /\ tasks[t].next < tasks[t].end
    /\ LET i == tasks[t].next
           undefined == i >= Len(temp_assignments)
       IN  \E crash \in IF undefined THEN BOOLEAN ELSE {FALSE} :
             IF crash
             THEN /\ pc' = "crashed"
                  /\ UNCHANGED <<centroids, tasks>>
             ELSE /\ pc' = pc
                  /\ tasks' = [tasks EXCEPT ![t].next = i + 1]
                  /\ \E c \in IF undefined
                              THEN {centroids[i + 1]} \cup PointSet
                              ELSE UpdatedCentroid(centroids[i + 1], temp_assignments[i + 1]) :
                       centroids' = [centroids EXCEPT ![i + 1] = c]
    /\ UNCHANGED <<previous, measured>>
    /\ UNCHANGED <<engine, workers, points, k, iterations, initCalls, POINTS_SIZE,
                   temp_assignments, sums, counts, iters, assignments>>

\* The second parallel_for returns once all its tasks have finished.
PhaseBJoin ==
    /\ pc = "phaseB"
    /\ AllFinished
    /\ pc' = "loop"
    /\ tasks' = <<>>
    /\ UNCHANGED <<previous, measured>>
    /\ UNCHANGED <<engine, workers, points, k, iterations, initCalls, POINTS_SIZE,
                   temp_assignments, sums, counts, iters, centroids, assignments>>

(***************************************************************************)
(* The sequential engine's iteration.                                      *)
(***************************************************************************)
\* One iteration starts: --iters, sums and counts are reset.
SerialBeginIteration ==
    /\ pc = "loop"
    /\ engine = "serial"
    /\ iters > 0
    /\ \E crash \in IF k > Len(sums) THEN BOOLEAN ELSE {FALSE} :
         IF crash
         THEN /\ pc' = "crashed"
              /\ UNCHANGED <<iters, sums, counts>>
         ELSE /\ pc' = "assign"
              /\ iters' = iters - 1
              /\ sums' = [c \in 1..Len(sums) |-> IF c <= k THEN Origin ELSE sums[c]]
              /\ counts' = [c \in 1..Len(counts) |-> IF c <= k THEN 0 ELSE counts[c]]
    /\ UNCHANGED <<previous, measured>>
    /\ UNCHANGED <<engine, workers, points, k, iterations, initCalls, POINTS_SIZE,
                   temp_assignments, centroids, assignments, tasks>>

\* The body of the assignment loop (lines 87-91) for point i of pts, against
\* the centroids cs, on st = [a, s, c]: the assignments, sums and counts so far.
SerialStep(pts, cs, i, st) ==
    LET p == pts[i + 1]
        nearest == IF cs = <<>> THEN 0 ELSE getNearestCluster(p, cs)
    IN  [a |-> [st.a EXCEPT ![i + 1] = AsgnCast(nearest)],
         s |-> IF nearest < Len(st.s)
               THEN [st.s EXCEPT ![nearest + 1] = Point(Wrap(@.x + p.x), Wrap(@.y + p.y))]
               ELSE st.s,
         c |-> IF nearest < Len(st.c)
               THEN [st.c EXCEPT ![nearest + 1] = @ + 1]
               ELSE st.c]

\* The assignment loop for i = lo, ..., hi - 1, in this order.  (The range is
\* halved, and the first half evaluated before the second starts, only to keep
\* TLC's evaluation shallow: a length is never negative.)
RECURSIVE SerialPass(_, _, _, _, _)
SerialPass(pts, cs, lo, hi, st) ==
    IF lo >= hi THEN st
    ELSE IF hi = lo + 1 THEN SerialStep(pts, cs, lo, st)
    ELSE LET mid == (lo + hi) \div 2
             left == SerialPass(pts, cs, lo, mid, st)
         IN  IF Len(left.a) >= 0 THEN SerialPass(pts, cs, mid, hi, left) ELSE left

\* The assignment loop over all points.
SerialAssign ==
    /\ pc = "assign"
    /\ LET undefined == Len(points) > 0 /\ (centroids = <<>> \/ k > Len(sums))
       IN  \E crash \in IF undefined THEN BOOLEAN ELSE {FALSE} :
             IF crash
             THEN /\ pc' = "crashed"
                  /\ UNCHANGED <<assignments, sums, counts>>
             ELSE LET st == SerialPass(points, centroids, 0, Len(points),
                                       [a |-> assignments, s |-> sums, c |-> counts])
                  IN  /\ pc' = "update"
                      /\ assignments' = st.a
                      /\ sums' = st.s
                      /\ counts' = st.c
    /\ UNCHANGED <<previous, measured>>
    /\ UNCHANGED <<engine, workers, points, k, iterations, initCalls, POINTS_SIZE,
                   temp_assignments, iters, centroids, tasks>>

\* The centroid update loop (lines 94-98) on centroids cs with sums s and counts c.
SerialUpdated(cs, s, c) ==
    [i \in 1..Len(cs) |->
       IF i > Len(c) \/ c[i] = 0 THEN cs[i] ELSE Mean(s[i], c[i])]

SerialUpdate ==
    /\ pc = "update"
    /\ pc' = "loop"
    /\ centroids' = SerialUpdated(centroids, sums, counts)
    /\ UNCHANGED <<previous, measured>>
    /\ UNCHANGED <<engine, workers, points, k, iterations, initCalls, POINTS_SIZE,
                   temp_assignments, sums, counts, iters, assignments, tasks>>

\* The sequential engine's iteration loop as a function: n more iterations on
\* pts from the centroids cs and the assignments a.
RECURSIVE SerialLoop(_, _, _, _)
SerialLoop(pts, cs, a, n) ==
    IF n = 0 THEN [centroids |-> cs, assignments |-> a]
    ELSE LET st == SerialPass(pts, cs, 0, Len(pts),
                              [a |-> a,
                               s |-> [c \in 1..Len(cs) |-> Origin],
                               c |-> [c \in 1..Len(cs) |-> 0]])
         IN  SerialLoop(pts, SerialUpdated(cs, st.s, st.c), st.a, n - 1)

\* What the sequential engine's compute returns for 1 <= kk <= Len(pts),
\* after init(Len(pts), kk, it).
SerialCompute(pts, kk, it) ==
    SerialLoop(pts, SubSeq(pts, 1, kk), [i \in 1..Len(pts) |-> 0], it)

(***************************************************************************)
(* The specification: one request through the harness.                     *)
(***************************************************************************)
Next ==
    \/ MainValidate
    \/ DirectCall
    \/ RunInit
    \/ ComputeStart
    \/ Return
    \/ RunCheck
    \/ BeginIteration
    \/ \E t \in 1..Len(tasks) : PhaseAStep(t)
    \/ PhaseAJoin
    \/ \E t \in 1..Len(tasks) : PhaseBStep(t)
    \/ PhaseBJoin
    \/ SerialBeginIteration
    \/ SerialAssign
    \/ SerialUpdate

Spec == Init /\ [][Next]_vars

\* The requests of at most MaxPointsLong points with
\* 1 <= k <= min(len(points), 256) and iters >= 1.
InitAccepted ==
    /\ Init
    /\ Len(points) <= MaxPointsLong
    /\ 1 <= k /\ k <= Len(points) /\ k <= AsgnRange
    /\ iterations >= 1

\* The caller, the loop of compute and the worker tasks of a parallel_for all
\* keep running: a step that stays possible is eventually taken.
SpecFair == InitAccepted /\ [][Next]_vars /\ WF_vars(Next)

(***************************************************************************)
(* A request with more clusters than the assignment type has values, handed *)
(* to the engine by a caller other than main.                              *)
(***************************************************************************)
WideCount == AsgnRange + 1

\* WideCount pairwise distinct points, row by row on a grid.
WidePoints == [i \in 1..WideCount |-> Point((i - 1) % GridSide, (i - 1) \div GridSide)]

\* Each parallel_for runs as one task: which accumulator a point is appended to
\* does not depend on the interleaving.
InitWide ==
    /\ engine \in Engines
    /\ workers = 1
    /\ points = WidePoints
    /\ k = WideCount
    /\ iterations = 1
    /\ Fresh

SpecWide == InitWide /\ [][Next]_vars

(***************************************************************************)
(* An engine that is initialised more than once.                           *)
(***************************************************************************)
\* The caller changes the number of clusters and calls init again.
Reinit ==
    /\ pc = "inited"
    /\ initCalls < MaxInits
    /\ \E kk \in 0..MaxPoints :
         /\ k' = kk
         /\ InitFields(Len(points), kk, iterations)
    /\ initCalls' = initCalls + 1
    /\ UNCHANGED <<previous, measured>>
    /\ UNCHANGED <<engine, workers, points, iterations, pc, iters, centroids,
                   assignments, tasks>>

NextReinit ==
    \/ MainValidate
    \/ DirectCall
    \/ RunInit
    \/ Reinit

SpecReinit == Init /\ [][NextReinit]_vars

(***************************************************************************)
(* A caller that passes init a point count other than the size of the      *)
(* vector it later passes to compute.                                      *)
(***************************************************************************)
InitCount ==
    /\ pc = "run"
    /\ \E n \in 0..MaxPoints : InitFields(n, k, iterations)
    /\ initCalls' = initCalls + 1
    /\ pc' = "inited"
    /\ UNCHANGED <<engine, workers, points, k, iterations, iters, centroids,
                   assignments, tasks, previous, measured>>

NextCount ==
    \/ Next
    \/ InitCount

SpecCount == Init /\ [][NextCount]_vars

(***************************************************************************)
(* The distance function on its own, over the range of coord_t.            *)
(***************************************************************************)
CoordMin == -(CoordModulus \div 2)

CoordMax == CoordModulus \div 2 - 1

\* n is a value of coord_t.
Representable(n) == CoordMin <= n /\ n <= CoordMax

\* Coordinates of coord_t: its two ends, the values around zero, and the
\* smallest magnitude whose square is not a value of coord_t.
CoordSamples ==
    {CoordMin, -Pow2(CoordBits \div 2), -1, 0, 1, Pow2(CoordBits \div 2), CoordMax}

\* The point and the centroid distance is called with are points[0] and
\* centroids[0].
InitDistance ==
    /\ engine \in Engines
    /\ workers = MaxWorkers
    /\ \E px, py \in CoordSamples : points = <<Point(px, py)>>
    /\ \E cx, cy \in CoordSamples : centroids = <<Point(cx, cy)>>
    /\ k = 1
    /\ iterations = 1
    /\ pc = "start"
    /\ initCalls = 0
    /\ POINTS_SIZE = 0
    /\ temp_assignments = <<>>
    /\ sums = <<>>
    /\ counts = <<>>
    /\ iters = 0
    /\ assignments = <<>>
    /\ tasks = <<>>
    /\ previous = <<>>
    /\ measured = 0

\* A subtraction, product or sum of distance(point, centroid) has a result that
\* is not a value of coord_t: signed overflow.
Overflows(point, centroid) ==
    LET dx == point.x - centroid.x
        dy == point.y - centroid.y
    IN  \/ ~Representable(dx)
        \/ ~Representable(dy)
        \/ ~Representable(Wrap(dx) * Wrap(dx))
        \/ ~Representable(Wrap(dy) * Wrap(dy))
        \/ ~Representable(Wrap(Wrap(dx) * Wrap(dx)) + Wrap(Wrap(dy) * Wrap(dy)))

\* One call of distance.  Signed overflow is undefined: the build wraps the
\* result or traps.
Measure ==
    /\ pc = "start"
    /\ \E crash \in IF Overflows(points[1], centroids[1]) THEN BOOLEAN ELSE {FALSE} :
         IF crash
         THEN /\ pc' = "crashed"
              /\ measured' = measured
         ELSE /\ pc' = "measured"
              /\ measured' = distance(points[1], centroids[1])
    /\ UNCHANGED <<engine, workers, points, k, iterations, initCalls, POINTS_SIZE,
                   temp_assignments, sums, counts, iters, centroids, assignments,
                   tasks, previous>>

NextDistance == Measure

SpecDistance == InitDistance /\ [][NextDistance]_vars

(***************************************************************************)
(* A caller that calls compute again on the same engine.                   *)
(***************************************************************************)
\* compute has returned from a call that read no vector out of bounds: the
\* caller keeps a copy of the results and calls compute again with the same
\* points, k and iters, handing it either the vectors the previous call filled
\* or new empty ones.
Retry ==
    /\ pc = "done"
    /\ k <= Len(points)
    /\ Len(previous) + 1 < MaxCalls
    /\ previous' = Append(previous, [centroids |-> centroids, assignments |-> assignments])
    /\ \E reuse \in BOOLEAN :
         /\ centroids' = IF reuse THEN centroids ELSE <<>>
         /\ assignments' = IF reuse THEN assignments ELSE <<>>
    /\ pc' = "inited"
    /\ UNCHANGED <<engine, workers, points, k, iterations, initCalls, POINTS_SIZE,
                   temp_assignments, sums, counts, iters, tasks, measured>>

NextRetry ==
    \/ Next
    \/ Retry

SpecRetry == Init /\ [][NextRetry]_vars

(***************************************************************************)
(* Properties.                                                             *)
(***************************************************************************)
\* The request is one the contract accepts.
WellFormed == 1 <= k /\ k <= Len(points) /\ iterations >= 1

\* The points assigned to cluster c (0-based) by the assignment vector.
Members(c) == {i \in 1..Len(assignments) : assignments[i] = c}

RECURSIVE SumX(_)
SumX(S) == IF S = {} THEN 0
           ELSE LET i == CHOOSE j \in S : TRUE IN points[i].x + SumX(S \ {i})

RECURSIVE SumY(_)
SumY(S) == IF S = {} THEN 0
           ELSE LET i == CHOOSE j \in S : TRUE IN points[i].y + SumY(S \ {i})

\* q is a / n truncated toward zero (n > 0).
IsTruncQuot(q, a, n) ==
    /\ a >= 0 => (q >= 0 /\ q * n <= a /\ a < (q + 1) * n)
    /\ a < 0 => (q <= 0 /\ q * n >= a /\ a > (q - 1) * n)

\* C1: for 1 <= k <= len(points) and iters >= 1, after init(len(points), k, iters)
\* on a fresh engine, the concurrent engine's compute returns the centroids and
\* assignments the sequential engine's compute returns, whatever the tasks and
\* their interleaving.
C1_ConcurrentEqualsSequential ==
    (engine = "concurrent" /\ pc = "done" /\ WellFormed) =>
        LET ref == SerialCompute(points, k, iterations)
        IN  centroids = ref.centroids /\ assignments = ref.assignments

\* C2: after compute returns (1 <= k <= len(points), iters >= 1), the centroid of
\* every cluster with a non-empty member set {i : assignments[i] = c} is, on each
\* axis, the sum of its members' coordinates divided by their number, truncated
\* toward zero; in both engines.
C2_CentroidIsTruncatedMean ==
    (pc = "done" /\ WellFormed) =>
        \A c \in 0..(k - 1) :
            LET M == Members(c)
            IN  M # {} =>
                  /\ IsTruncQuot(centroids[c + 1].x, SumX(M), Cardinality(M))
                  /\ IsTruncQuot(centroids[c + 1].y, SumY(M), Cardinality(M))

\* C3: after compute returns, for 1 <= k <= min(len(points), 256) and every
\* iteration count the engine accepts, there is one assignment per point and
\* each is a centroid index: 0 <= assignments[i] < k; in both engines.
C3_AssignmentsValid ==
    (pc = "done" /\ 1 <= k /\ k <= Len(points) /\ k <= AsgnRange) =>
        /\ Len(assignments) = Len(points)
        /\ \A i \in 1..Len(points) : assignments[i] \in 0..(k - 1)

\* A returned run of either engine in which a point went to the last of two or
\* more clusters.
C3_Witness ==
    /\ pc = "done" /\ WellFormed /\ k >= 2
    /\ \E i \in 1..Len(points) : assignments[i] = k - 1

\* C4: in every iteration, a cluster that receives no member keeps the centroid
\* it had at the start of the iteration: no step of the assignment phase writes
\* a centroid, and no step of the update phase writes the centroid of a cluster
\* whose accumulator (concurrent) or count (sequential) is empty.
C4_EmptyClusterKeepsCentroid ==
    [][/\ pc \in {"phaseA", "assign"} => centroids' = centroids
       /\ pc = "phaseB" =>
            \A c \in 1..Len(centroids) :
                (c <= Len(temp_assignments) /\ temp_assignments[c] = <<>>)
                    => centroids'[c] = centroids[c]
       /\ pc = "update" =>
            \A c \in 1..Len(centroids) :
                (c <= Len(counts) /\ counts[c] = 0) => centroids'[c] = centroids[c]
      ]_vars

\* A returned run whose last iteration left a cluster with a centroid other
\* than (0,0) without members.
C4_Witness ==
    /\ pc = "done" /\ WellFormed
    /\ \E c \in 1..k :
         /\ centroids[c] # Origin
         /\ \/ engine = "concurrent" /\ temp_assignments[c] = <<>>
            \/ engine = "serial" /\ counts[c] = 0

\* The points getNearestCluster is applied to.
ProbePoints == PointSet \cup {points[i] : i \in 1..Len(points)}

\* C5: for every point and every non-empty centroid vector, getNearestCluster
\* returns the lowest index whose centroid is at the minimum distance: among
\* equidistant centroids the lower index wins.  (Stated of the centroid vectors
\* an assignment phase reads: those at the head of the iteration loop.)
C5_NearestIsLowestMinimum ==
    (pc = "loop" /\ centroids # <<>>) =>
        \A p \in ProbePoints :
            LET n == getNearestCluster(p, centroids)
            IN  /\ n \in 0..(Len(centroids) - 1)
                /\ \A j \in 0..(Len(centroids) - 1) :
                     /\ distance(p, centroids[n + 1]) <= distance(p, centroids[j + 1])
                     /\ j < n => distance(p, centroids[n + 1]) < distance(p, centroids[j + 1])

\* The sequential engine has just assigned a point that lies at the same,
\* non-zero, minimum distance from two centroids to the lower of the two.
C5_Witness ==
    /\ engine = "serial" /\ pc = "update" /\ WellFormed
    /\ \E i \in 1..Len(points) : \E a, b \in 1..k :
         /\ a < b
         /\ distance(points[i], centroids[a]) = distance(points[i], centroids[b])
         /\ distance(points[i], centroids[a]) > 0
         /\ \A j \in 1..k :
              distance(points[i], centroids[a]) <= distance(points[i], centroids[j])
         /\ assignments[i] = a - 1

\* The request of the scenario.
ScenarioRequest == points = ScenarioPoints /\ k = 2 /\ iterations = 1

\* C6 as stated: for points (0,0),(10,0),(0,10),(10,10), k = 2, iters = 1, compute
\* seeds the centroids with (0,0),(10,0), assigns the first three points to
\* cluster 0 and (10,10) to cluster 1, and returns centroids (3,3),(10,10).
C6_Original ==
    ScenarioRequest =>
        /\ (pc = "loop" /\ iters = iterations) =>
              centroids = <<Point(0, 0), Point(10, 0)>>
        /\ pc = "done" =>
              /\ assignments = <<0, 0, 0, 1>>
              /\ centroids = <<Point(3, 3), Point(10, 10)>>

\* C6 amended: for the same request compute seeds the centroids with
\* (0,0),(10,0), assigns (0,0) and (0,10) to cluster 0 and (10,0) and (10,10) to
\* cluster 1 ((10,0) is the seed of cluster 1, at distance 0), and returns
\* centroids (0,5),(10,5).
C6_Scenario ==
    ScenarioRequest =>
        /\ (pc = "loop" /\ iters = iterations) =>
              centroids = <<Point(0, 0), Point(10, 0)>>
        /\ pc = "done" =>
              /\ assignments = <<0, 1, 0, 1>>
              /\ centroids = <<Point(0, 5), Point(10, 5)>>

\* The scenario has run to its return.
C6_Witness == ScenarioRequest /\ pc = "done" /\ Len(centroids) = 2

\* C7 as stated: with k = len(points) and iters >= 1, repeated points included,
\* compute returns assignments 0, 1, ..., k-1 and the centroids are the points
\* after every iteration.
C7_Original ==
    (k = Len(points) /\ k >= 1 /\ iterations >= 1) =>
        /\ pc \in {"loop", "done"} => centroids = points
        /\ pc = "done" => assignments = [i \in 1..k |-> i - 1]

\* The first position of the input that holds the same point as position i.
FirstEqual(i) == CHOOSE j \in 1..i :
                    points[j] = points[i] /\ \A h \in 1..(j - 1) : points[h] # points[i]

\* C7 amended: with k = len(points) <= 256 and iters >= 1, after every iteration
\* the centroids are the points, and compute returns for every point the index
\* of the first point equal to it (its own index when the points are distinct).
C7_OwnCentroids ==
    (k = Len(points) /\ k >= 1 /\ k <= AsgnRange /\ iterations >= 1) =>
        /\ pc \in {"loop", "done"} => centroids = points
        /\ pc = "done" => assignments = [i \in 1..k |-> FirstEqual(i) - 1]

\* A returned run with k = len(points), two iterations and a repeated point.
C7_Witness ==
    /\ pc = "done" /\ k = Len(points) /\ k >= 2 /\ iterations = 2
    /\ \E i \in 1..k : FirstEqual(i) # i

\* The request is malformed: no cluster, or fewer points than clusters.
Malformed == k = 0 \/ Len(points) < k

\* C8: init/compute with k = 0 or len(points) < k ends in an error at entry:
\* compute reads neither points nor centroids out of bounds (it never gets past
\* its entry, and does not crash) and produces no centroids or assignments.
C8_MalformedRejected ==
    Malformed =>
        /\ pc \in {"start", "usage", "run", "inited"}
        /\ centroids = <<>>
        /\ assignments = <<>>

\* C9: a request with iters = 0 (otherwise well-formed) is rejected: no compute
\* is performed, and compute does not return with seeded centroids and default
\* assignments.
C9_ZeroIterationsRejected ==
    (iterations = 0 /\ 1 <= k /\ k <= Len(points)) =>
        /\ pc \notin {"loop", "done"}
        /\ centroids = <<>>
        /\ assignments = <<>>

\* C10: after any sequence of init calls the per-cluster working storage holds
\* as many accumulators as the k of the most recent init call; in both engines.
C10_StorageSizedToLastInit ==
    pc = "inited" =>
        /\ engine = "concurrent" => Len(temp_assignments) = k
        /\ engine = "serial" => (Len(sums) = k /\ Len(counts) = k)

\* C11: compute called twice in a row on the same initialized engine with the
\* same points, k and iters (a request whose k points to seed from exist)
\* returns the same centroids and assignments both times, whether or not the
\* caller hands the second call the vectors the first one filled.
C11_RetrySameResult ==
    (pc = "done" /\ k <= Len(points)) =>
        \A c \in 1..Len(previous) :
            /\ centroids = previous[c].centroids
            /\ assignments = previous[c].assignments

\* The second call of a two-iteration request has returned; the first call
\* left members in an accumulator (concurrent) or a count (sequential), and
\* moved a centroid off its seed.
C11_Witness ==
    /\ pc = "done" /\ previous # <<>> /\ WellFormed /\ iterations = 2
    /\ \E c \in 1..k : previous[1].centroids[c] # points[c]
    /\ \/ engine = "concurrent" /\ \E c \in 1..k : temp_assignments[c] # <<>>
       \/ engine = "serial" /\ \E c \in 1..k : counts[c] # 0

\* C12: from the seeding step until compute returns, centroids has exactly k
\* elements and assignments exactly len(points); so on return both sizes are
\* as runKmeans checks them, and neither of its two checks throws.
C12_OutputSizes ==
    /\ pc \in {"loop", "phaseA", "phaseB", "assign", "update", "done", "returned"} =>
          /\ Len(centroids) = k
          /\ Len(assignments) = Len(points)
    /\ pc # "failed"

\* runKmeans has passed both checks after a two-iteration run with fewer
\* clusters than points.
C12_Witness ==
    /\ pc = "returned" /\ iterations = 2
    /\ Len(centroids) = 2 /\ Len(assignments) = 3

\* A task of the running parallel_for still has an index to process.
Pending == \E t \in 1..Len(tasks) : tasks[t].next < tasks[t].end

\* C13: in the concurrent engine, in every iteration, Phase B starts only when
\* every Phase A task of the iteration has finished, and nothing is appended
\* to (or removed from) an accumulator while Phase B runs.
C13_PhaseBarrier ==
    [][/\ (pc = "phaseA" /\ pc' = "phaseB") => ~Pending
       /\ pc' = "phaseB" => pc \in {"phaseA", "phaseB"}
       /\ pc = "phaseB" => temp_assignments' = temp_assignments
      ]_vars

\* Phase B of the second iteration runs on an accumulator that Phase A filled
\* with two or more points.
C13_Witness ==
    /\ pc = "phaseB" /\ WellFormed /\ iterations = 2 /\ iters = 0
    /\ \E c \in 1..k : Len(temp_assignments[c]) >= 2

\* C14: in the concurrent engine no centroid is written while Phase A runs,
\* Phase A starts only from the head of the loop with no task running, and
\* Phase B is left only when every Phase B task has finished: all centroid
\* writes of an iteration precede every centroid read of the next one.
C14_CentroidsStableInPhaseA ==
    [][/\ pc = "phaseA" => centroids' = centroids
       /\ (pc' = "phaseA" /\ pc # "phaseA") => (pc = "loop" /\ tasks = <<>>)
       /\ (pc = "phaseB" /\ pc' \notin {"phaseB", "crashed"}) => (~Pending /\ pc' = "loop")
      ]_vars

\* Phase A of the second iteration runs, with a point still to be searched for,
\* on centroids that Phase B of the first iteration moved off the seeds.
C14_Witness ==
    /\ pc = "phaseA" /\ WellFormed /\ iterations = 2 /\ iters = 0 /\ Pending
    /\ centroids # SubSeq(points, 1, k)

\* The nearest centroid of every point, against the current centroids.
NearestOfPoints == [i \in 1..Len(points) |-> getNearestCluster(points[i], centroids)]

\* The number of positions of the sequence s that hold v.
Occurrences(s, v) == Cardinality({j \in 1..Len(s) : s[j] = v})

\* C15: in the concurrent engine, at the end of Phase A of every iteration and
\* under every interleaving of its tasks, the k accumulators partition the
\* input: every point index contributes exactly one element, to the
\* accumulator of its nearest centroid, so accumulator c holds exactly the
\* points whose nearest centroid is c and the sizes sum to len(points).
C15_AccumulatorsPartitionInput ==
    (engine = "concurrent" /\ pc = "phaseA" /\ ~Pending /\ WellFormed) =>
        LET N == NearestOfPoints
        IN  \A c \in 0..(k - 1) :
              LET members == {i \in 1..Len(points) : N[i] = c}
              IN  /\ Len(temp_assignments[c + 1]) = Cardinality(members)
                  /\ \A i \in members :
                       Occurrences(temp_assignments[c + 1], points[i]) =
                       Cardinality({j \in members : points[j] = points[i]})

\* The first index of the chunk of task t: chunks are contiguous, from 0.
ChunkBegin(t) == IF t = 1 THEN 0 ELSE tasks[t - 1].end

\* The tasks of the running parallel_for whose chunk covers index i.
Owners(i) == {t \in 1..Len(tasks) : ChunkBegin(t) <= i /\ i < tasks[t].end}

\* Task t processes index i in this step.
Processes(t, i) == tasks[t].next = i /\ tasks'[t].next = i + 1

C17_ResultFromComputeArguments ==
    (engine = "concurrent" /\ WellFormed /\ k <= AsgnRange) =>
        /\ pc # "crashed"
        /\ pc = "phaseA" =>
              IF tasks = <<>> THEN Len(points) = 0
              ELSE tasks[Len(tasks)].end = Len(points)
        /\ pc = "done" =>
              LET ref == SerialCompute(points, k, iterations)
              IN  centroids = ref.centroids /\ assignments = ref.assignments

\* An assignment pass has just been completed: the sequential loop over the
\* points, or every task of the concurrent Phase A (centroids still are those
\* of the start of the iteration).
PassDone ==
    \/ engine = "serial" /\ pc = "update"
    \/ engine = "concurrent" /\ pc = "phaseA" /\ ~Pending

\* C18 as stated: in both engines, after the assignment pass of every iteration
\* assignments[i] is the index of the nearest centroid of points[i] with
\* respect to the centroids at the start of the iteration, for every i.
C18_Original ==
    (WellFormed /\ k <= AsgnRange /\ PassDone) =>
        \A i \in 1..Len(points) : assignments[i] = NearestOfPoints[i]

\* C18 amended: the sequential engine recomputes the assignment array in every
\* iteration; the concurrent engine writes it in the last iteration only.
\* After the assignment pass of every iteration of the sequential engine and
\* of the last iteration of the concurrent engine, assignments[i] is the index
\* of the nearest centroid of points[i] with respect to the centroids at the
\* start of that iteration; no step of an earlier Phase A of the concurrent
\* engine changes the assignment array.
C18_AssignmentsPerIteration ==
    [][(WellFormed /\ k <= AsgnRange) =>
          /\ (PassDone /\ (engine = "serial" \/ iters = 0)) =>
                \A i \in 1..Len(points) : assignments[i] = NearestOfPoints[i]
          /\ (engine = "concurrent" /\ pc = "phaseA" /\ iters > 0) =>
                assignments' = assignments
      ]_vars

\* The concurrent engine has completed the Phase A of an iteration that is not
\* the last, for a point whose nearest centroid is not the one its slot names.
C18_Witness ==
    /\ engine = "concurrent" /\ pc = "phaseA" /\ ~Pending /\ iters > 0 /\ WellFormed
    /\ \E i \in 1..Len(points) : assignments[i] # NearestOfPoints[i]

\* C19: for every point and centroid whose coordinates are values of coord_t,
\* distance returns the mathematical squared Euclidean distance
\* dx*dx + dy*dy, which is not negative: no difference, square or sum of the
\* function wraps (or traps).
C19_DistanceNeverWraps ==
    /\ pc # "crashed"
    /\ pc = "measured" =>
          LET dx == points[1].x - centroids[1].x
              dy == points[1].y - centroids[1].y
          IN  measured >= 0 /\ measured = dx * dx + dy * dy

\* The request is one the contract accepts.
Accepted == WellFormed /\ k <= AsgnRange

\* The steps of compute on an accepted request: iters is set once and then
\* counted down by one per iteration; an iteration is an assignment pass over
\* all points run to its end, then a centroid update over all clusters run to
\* its end; compute returns only with iters = 0, and does not crash.
IterationShape ==
    Accepted =>
        /\ pc' # "crashed"
        /\ iters' # iters =>
              \/ pc = "inited" /\ iters' = iterations
              \/ pc = "loop" /\ iters' = iters - 1 /\ pc' \in {"phaseA", "assign"}
        /\ (pc = "loop" /\ pc' \in {"phaseA", "assign"}) => iters' = iters - 1
        /\ (pc' = "phaseA" /\ pc = "loop") =>
              (tasks' # <<>> /\ tasks'[1].next = 0 /\ tasks'[Len(tasks')].end = Len(points))
        /\ (pc = "phaseA" /\ pc' # "phaseA") => (pc' = "phaseB" /\ ~Pending)
        /\ (pc = "phaseA" /\ pc' = "phaseB") =>
              (tasks' # <<>> /\ tasks'[1].next = 0 /\ tasks'[Len(tasks')].end = k)
        /\ (pc = "phaseB" /\ pc' # "phaseB") => (pc' = "loop" /\ ~Pending)
        /\ (pc = "assign" /\ pc' # "assign") => pc' = "update"
        /\ (pc = "update" /\ pc' # "update") => pc' = "loop"
        /\ (pc' = "done" /\ pc # "done") => (pc = "loop" /\ iters = 0)

\* C20: for every accepted request compute terminates after exactly iters
\* iterations, each one full assignment pass followed by one full centroid
\* update, with no early stop; under fair scheduling of the caller and the
\* worker tasks no phase waits forever: every call returns.
C20_RunsAllIterations ==
    /\ [][IterationShape]_vars
    /\ (Accepted /\ pc = "inited") ~> (pc = "done" /\ iters = 0)

\* The concurrent engine has returned from a run of MaxIters iterations, to a
\* caller whose size checks passed.
C20_Witness ==
    /\ pc = "returned" /\ Accepted /\ engine = "concurrent"
    /\ iterations = MaxIters /\ iters = 0

=============================================================================
